---- MODULE Spec2Model ----
(***************************************************************************)
(* State-machine model of the TrailerSwipe feed: the Home swipe feed       *)
(* (src/app/page.tsx), the collection scroll feed (CollectionDetailPage in *)
(* src/app/favorites/page.tsx), the card and trailer player components and *)
(* the favorites store.  Each action is one event of the UI event loop:    *)
(* the handler, the React state updates it makes and the render that       *)
(* follows.                                                                *)
(***************************************************************************)
EXTENDS Integers, Sequences, FiniteSets, Bags, TLC

\* ---------------------------------------------------------------- bounds
\* Size of a page of movies the provider answers with (the code keeps at
\* most the first 20, page.tsx:68) and of a collection's movieIds.
MaxItems == 2
\* Number of loadMovies calls that may be awaiting the provider at once.
MaxInflight == 2
\* Number of entries delivered in one IntersectionObserver callback.
MaxEntries == 2
\* Number of videos in one /movie/{id}/videos answer of the video feed.
MaxVideos == 2

\* ------------------------------------------------------ program constants
MAX_FAVORITES == 500
\* `threshold: 80` that Home passes to useSwipe, in pixels.
SWIPE_THRESHOLD == 80
\* Velocity thresholds of the two versions of useSwipe, 0.5 and 0.3 px/ms,
\* in tenths of a pixel per millisecond (as are all velocities below).
VELOCITY_THRESHOLD_05 == 5
VELOCITY_THRESHOLD_03 == 3

\* ------------------------------------------------------------- value sets
Categories == {"popular", "g28"}

\* `null` of `trailer: MovieVideo | null`, kept record-shaped.
NoTrailer == [site |-> "none", type |-> "none", official |-> FALSE, key |-> ""]

OfficialTrailer == [site |-> "YouTube", type |-> "Trailer", official |-> TRUE, key |-> "k1"]
VimeoTrailer == [site |-> "Vimeo", type |-> "Trailer", official |-> TRUE, key |-> "k2"]
FanTeaser == [site |-> "YouTube", type |-> "Teaser", official |-> FALSE, key |-> "k3"]

\* Bodies of the provider's /movie/{id}/videos answer that are enumerated:
\* no video at all, and a list whose YouTube trailer comes last.
RawVideoLists == {<<>>, <<VimeoTrailer, FanTeaser, OfficialTrailer>>}

\* Outcome of one getMovieVideos / getMovieById call, the throwing call
\* included.
Outcomes == {[ok |-> FALSE, videos |-> <<>>]} \cup {[ok |-> TRUE, videos |-> l] : l \in RawVideoLists}

\* Ids on the provider's page for a category, and of a collection's movieIds.
\* The same movie can be listed under several categories.
Catalogue(cat) == [i \in 1..MaxItems |-> i]

PlayerStatus == {"idle", "loading", "playing", "error"}

\* Ids of the collections of data/collections.ts that are enumerated.
CollectionIds == {"c1", "c2"}

\* ------------------------------------------------------------------ state
VARIABLES
  route,          \* page that is mounted: "home" or "collection"
  movies,         \* useState<ExtendedMovie[]>
  currentIndex,   \* useState(0), 0-based as in the code
  isLoading,      \* useState(true)
  activeCategory, \* useState('popular') (Home only)
  muted,          \* useState(true)
  requests,       \* loadMovies / loadCollection calls awaiting the provider
  player,         \* per rendered card: state of its TrailerPlayer
  stored,         \* localStorage list of favorite movie ids
  favorites,      \* useFavorites() state of the page
  timer,          \* pending setTimeout of the mounted player's mute effect
  swipeState,     \* useSwipe: useState<SwipeState>
  velocityThreshold, \* useSwipe: the velocity threshold of the version built
  info,           \* the `info` argument of the drag event just handled (history)
  storedCollections,   \* localStorage list of favorite collection ids
  favoriteCollections, \* useFavoriteCollections() state of FavoritesPage
  cardCollections,     \* useFavoriteCollections() state of each CollectionCard
  last            \* the event that produced this state (history)

vars == <<route, movies, currentIndex, isLoading, activeCategory, muted, requests, player, stored, favorites, timer, swipeState, velocityThreshold, info, storedCollections, favoriteCollections, cardCollections, last>>

\* ---------------------------------------------------------------- helpers
Includes(s, x) == \E i \in 1..Len(s) : s[i] = x

IsPrefix(s, t) == Len(s) <= Len(t) /\ \A i \in 1..Len(s) : s[i] = t[i]

IsYouTube(v) == v.site = "YouTube"

\* Position of a video under the comparator of getMovieVideos: official
\* first, then Trailer before the other types.
Rank(v) == (IF v.official THEN 0 ELSE 2) + (IF v.type = "Trailer" THEN 0 ELSE 1)

IsRank0(v) == Rank(v) = 0
IsRank1(v) == Rank(v) = 1
IsRank2(v) == Rank(v) = 2
IsRank3(v) == Rank(v) = 3

\* getMovieVideos: keep the YouTube videos, stable sort by the comparator.
getMovieVideos(raw) ==
  LET yt == SelectSeq(raw, IsYouTube)
  IN SelectSeq(yt, IsRank0) \o SelectSeq(yt, IsRank1) \o SelectSeq(yt, IsRank2) \o SelectSeq(yt, IsRank3)

\* `videos[0] || null`
FirstOrNull(vs) == IF Len(vs) > 0 THEN vs[1] ELSE NoTrailer

\* loadMovies, lines 67-82: the trailer of one movie of the page.
HomeTrailer(o) == IF o.ok THEN FirstOrNull(getMovieVideos(o.videos)) ELSE NoTrailer

\* loadMovies, lines 61-84: the list handed to setMovies.
moviesWithTrailers(cat, resp) ==
  [i \in 1..Len(resp) |-> [id |-> Catalogue(cat)[i], cat |-> cat, trailer |-> HomeTrailer(resp[i])]]

\* ------------------------------------------------------------- rendering
\* isActive prop of the card at position p (1-based): Home renders only
\* movies[currentIndex] with isActive={true}; the collection page passes
\* index === currentIndex.
\* Variant: every card up to the current one counts as active.
IsActiveUpTo(rt, idx, p) == p <= idx + 1

IsActive(rt, idx, p) == p = idx + 1

\* The card at position p is in the tree.
CardRendered(rt, mv, idx, ld, p) ==
  /\ ~ld
  /\ p \in 1..Len(mv)
  /\ (rt = "home" => p = idx + 1)

\* Variant: the card mounts its player on `hasTrailer` alone.
HasPlayerAnyCard(rt, mv, idx, ld, p) ==
  /\ CardRendered(rt, mv, idx, ld, p)
  /\ mv[p].trailer # NoTrailer

\* MovieCard: `hasTrailer && isActive ? <TrailerPlayer/> : poster`.
HasPlayer(rt, mv, idx, ld, p) ==
  /\ CardRendered(rt, mv, idx, ld, p)
  /\ mv[p].trailer # NoTrailer
  /\ IsActive(rt, idx, p)

\* TrailerPlayer renders an iframe unless `!videoKey`.
HasIframe(rt, mv, idx, ld, p) ==
  /\ HasPlayer(rt, mv, idx, ld, p)
  /\ mv[p].trailer.key # ""

\* State of the TrailerPlayer of every card after a render.  A player that
\* stays mounted for the same movie and video keeps its state; a newly
\* mounted one starts loading; a card without a player is idle.
Render(rt, mv, idx, ld, oldmv, oldpl) ==
  [p \in 1..Len(mv) |->
     IF HasIframe(rt, mv, idx, ld, p)
     THEN LET kept == {q \in 1..Len(oldmv) : /\ oldpl[q] # "idle"
                                             /\ oldmv[q].id = mv[p].id
                                             /\ oldmv[q].trailer = mv[p].trailer}
          IN IF kept # {} THEN oldpl[CHOOSE q \in kept : TRUE] ELSE "loading"
     ELSE "idle"]

\* Variant: the effect posts 'mute' whatever the preference is.
MuteCommandMuted(m) == "mute"

\* TrailerPlayer mute effect: `muted ? 'mute' : 'unMute'`.
MuteCommand(m) == IF m THEN "mute" ELSE "unMute"

\* The TrailerPlayer of the card at p was mounted, for the same video,
\* before the render.
StaysMounted(mv, p, oldmv, oldpl) ==
  \E q \in 1..Len(oldmv) : /\ oldpl[q] # "idle"
                            /\ oldmv[q].id = mv[p].id
                            /\ oldmv[q].trailer = mv[p].trailer

\* Variant: a toggle while a timer is pending leaves that timer in place
\* (the effect is not re-run, nothing is cleared).
MuteEffectKeepsPending(mv, m, oldmv, oldpl, oldm, newpl, tm) ==
  LET shown == {p \in 1..Len(mv) : newpl[p] \in {"loading", "playing"}}
  IN IF shown = {} THEN "none"
     ELSE IF \E p \in shown : ~StaysMounted(mv, p, oldmv, oldpl) THEN MuteCommand(m)
     ELSE IF m # oldm /\ tm = "none" THEN MuteCommand(m)
     ELSE tm

\* Variant: the effect has no cleanup, so the timer of a player that
\* unmounts stays pending.
MuteEffectNoCleanup(mv, m, oldmv, oldpl, oldm, newpl, tm) ==
  LET shown == {p \in 1..Len(mv) : newpl[p] \in {"loading", "playing"}}
  IN IF shown = {} THEN tm
     ELSE IF \E p \in shown : ~StaysMounted(mv, p, oldmv, oldpl) THEN MuteCommand(m)
     ELSE IF m # oldm THEN MuteCommand(m)
     ELSE tm

\* TrailerPlayer mute effect and its cleanup, deps [muted, videoKey]: a
\* player that mounts, or whose `muted` prop changed, sets a 500 ms timer for
\* the command; the cleanup clears the timer of an effect that re-runs or
\* whose player unmounts.  Without an iframe nothing is posted.
MuteEffect(mv, m, oldmv, oldpl, oldm, newpl, tm) ==
  LET shown == {p \in 1..Len(mv) : newpl[p] \in {"loading", "playing"}}
  IN IF shown = {} THEN "none"
     ELSE IF \E p \in shown : ~StaysMounted(mv, p, oldmv, oldpl) THEN MuteCommand(m)
     ELSE IF m # oldm THEN MuteCommand(m)
     ELSE tm

\* The render that ends an event, from the player states pl the event left,
\* and the effects that run after it.
Commit(pl) ==
  /\ player' = Render(route, movies', currentIndex', isLoading', movies, pl)
  /\ timer' = MuteEffect(movies', muted', movies, pl, muted, player', timer)

\* State of the active card's player, "idle" when there is none.
ActiveStatus == IF currentIndex < Len(player) THEN player[currentIndex + 1] ELSE "idle"

\* History record of an event: its handler and the branch it took (for a
\* completed load, what had issued it).
Ev(op, arg) == [op |-> op, arg |-> arg]

\* No drag event is being handled.
NoInfo == [kind |-> "none", offset |-> 0, velocity |-> 0]

\* The events of Home and of the collection page do not reach the
\* collection favorites: those pages mount no useFavoriteCollections.
NoCollections == UNCHANGED <<storedCollections, favoriteCollections, cardCollections>>

\* ------------------------------------------------------- favorites store
\* Variant: no membership test before the push.
addFavoriteNoCheck(st, id, writeOk) ==
  LET base == IF Len(st) >= MAX_FAVORITES THEN Tail(st) ELSE st
  IN IF writeOk
     THEN [success |-> TRUE, stored |-> Append(base, id)]
     ELSE [success |-> FALSE, stored |-> st]

\* Variant: at the limit the newest entry is dropped (pop instead of shift).
addFavoriteDropsNewest(st, id, writeOk) ==
  IF Includes(st, id)
  THEN [success |-> TRUE, stored |-> st]
  ELSE LET base == IF Len(st) >= MAX_FAVORITES THEN SubSeq(st, 1, Len(st) - 1) ELSE st
       IN IF writeOk
          THEN [success |-> TRUE, stored |-> Append(base, id)]
          ELSE [success |-> FALSE, stored |-> st]

\* Variant: adding a stored id moves it to the end of the list.
addFavoriteRefreshes(st, id, writeOk) ==
  LET kept == SelectSeq(st, LAMBDA x : x # id)
      base == IF Len(kept) >= MAX_FAVORITES THEN Tail(kept) ELSE kept
  IN IF writeOk
     THEN [success |-> TRUE, stored |-> Append(base, id)]
     ELSE [success |-> Includes(st, id), stored |-> st]

\* addFavorite(movieId); writeOk is whether localStorage.setItem succeeds.
addFavorite(st, id, writeOk) ==
  IF Includes(st, id)
  THEN [success |-> TRUE, stored |-> st]
  ELSE LET base == IF Len(st) >= MAX_FAVORITES THEN Tail(st) ELSE st
       IN IF writeOk
          THEN [success |-> TRUE, stored |-> Append(base, id)]
          ELSE [success |-> FALSE, stored |-> st]

\* favorites.filter(id => id !== movieId)
Without(s, id) == SelectSeq(s, LAMBDA x : x # id)

\* Variant: the catch block reports success.
removeFavoriteSwallows(st, id, writeOk) ==
  IF writeOk
  THEN [success |-> TRUE, stored |-> Without(st, id)]
  ELSE [success |-> TRUE, stored |-> st]

\* removeFavorite(movieId)
removeFavorite(st, id, writeOk) ==
  IF writeOk
  THEN [success |-> TRUE, stored |-> Without(st, id)]
  ELSE [success |-> FALSE, stored |-> st]

\* toggleFavorite(movieId): the returned flag does not look at the write.
toggleFavorite(st, id, writeOk) ==
  IF Includes(st, id)
  THEN [result |-> FALSE, stored |-> removeFavorite(st, id, writeOk).stored]
  ELSE [result |-> TRUE, stored |-> addFavorite(st, id, writeOk).stored]

\* ---------------------------------------------------------------- initial
\* The page has mounted and its mount effect has run: Home has called
\* loadMovies for 'popular', the collection page has called loadCollection.
InitPage ==
  /\ route \in {"home", "collection"}
  /\ movies = <<>>
  /\ currentIndex = 0
  /\ isLoading = TRUE
  /\ activeCategory = "popular"
  /\ muted = TRUE
  /\ requests = SetToBag({[cat |-> IF route = "home" THEN "popular" ELSE "collection", origin |-> "mount"]})
  /\ player = <<>>
  /\ timer = "none"
  /\ swipeState = [isDragging |-> FALSE, direction |-> "null", distance |-> 0]
  /\ info = NoInfo
  /\ storedCollections = <<>>
  /\ favoriteCollections = <<>>
  /\ cardCollections = [c \in CollectionIds |-> <<>>]
  /\ last = Ev("mount", "")

\* No favorite has been saved yet.
InitFeed ==
  /\ InitPage
  /\ stored = <<>>
  /\ favorites = <<>>

\* The feed as built from the later version of useSwipe.
Init ==
  /\ InitFeed
  /\ velocityThreshold = VELOCITY_THRESHOLD_03

\* ------------------------------------------------------------ Home: loads
\* loadMovies up to its first await: setIsLoading(true) and the request.
StartLoad(origin, cat) ==
  /\ isLoading' = TRUE
  /\ requests' = requests (+) SetToBag({[cat |-> cat, origin |-> origin]})

\* handleCategoryChange and the [activeCategory] effect.
CategoryChange(c) ==
  /\ route = "home"
  /\ c # activeCategory
  /\ BagCardinality(requests) < MaxInflight
  /\ activeCategory' = c
  /\ StartLoad("category", c)
  /\ UNCHANGED <<route, movies, currentIndex, muted, stored, favorites>>
  /\ Commit(player)
  /\ last' = Ev("CategoryChange", "")

\* Variant: the success path without setCurrentIndex(0).
LoadSuccessKeepIndex(r, resp) ==
  /\ route = "home"
  /\ BagIn(r, requests)
  /\ movies' = moviesWithTrailers(r.cat, resp)
  /\ currentIndex' = currentIndex
  /\ isLoading' = FALSE
  /\ requests' = requests (-) SetToBag({r})
  /\ UNCHANGED <<route, activeCategory, muted, stored, favorites>>
  /\ Commit(player)
  /\ last' = Ev("LoadSuccess", r.origin)

\* loadMovies after its awaits, success path: setMovies, setCurrentIndex(0),
\* finally setIsLoading(false).  resp is the provider's answer.
LoadSuccess(r, resp) ==
  /\ route = "home"
  /\ BagIn(r, requests)
  /\ movies' = moviesWithTrailers(r.cat, resp)
  /\ currentIndex' = 0
  /\ isLoading' = FALSE
  /\ requests' = requests (-) SetToBag({r})
  /\ UNCHANGED <<route, activeCategory, muted, stored, favorites>>
  /\ Commit(player)
  /\ last' = Ev("LoadSuccess", r.origin)

\* Variant: the catch block empties the feed.
LoadFailReset(r) ==
  /\ route = "home"
  /\ BagIn(r, requests)
  /\ movies' = <<>>
  /\ currentIndex' = 0
  /\ isLoading' = FALSE
  /\ requests' = requests (-) SetToBag({r})
  /\ UNCHANGED <<route, activeCategory, muted, stored, favorites>>
  /\ Commit(player)
  /\ last' = Ev("LoadFail", r.origin)

\* Variant: no finally block, a failed load leaves isLoading set.
LoadFailKeepsLoading(r) ==
  /\ route = "home"
  /\ BagIn(r, requests)
  /\ requests' = requests (-) SetToBag({r})
  /\ UNCHANGED <<route, movies, currentIndex, isLoading, activeCategory, muted, stored, favorites>>
  /\ Commit(player)
  /\ last' = Ev("LoadFail", r.origin)

\* loadMovies when the movie-list fetch throws: catch logs, finally
\* setIsLoading(false).
LoadFail(r) ==
  /\ route = "home"
  /\ BagIn(r, requests)
  /\ isLoading' = FALSE
  /\ requests' = requests (-) SetToBag({r})
  /\ UNCHANGED <<route, movies, currentIndex, activeCategory, muted, stored, favorites>>
  /\ Commit(player)
  /\ last' = Ev("LoadFail", r.origin)

\* The "Try Again" button of the empty state.
TryAgain ==
  /\ route = "home"
  /\ ~isLoading
  /\ Len(movies) = 0
  /\ BagCardinality(requests) < MaxInflight
  /\ StartLoad("retry", activeCategory)
  /\ UNCHANGED <<route, movies, currentIndex, activeCategory, muted, stored, favorites>>
  /\ Commit(player)
  /\ last' = Ev("TryAgain", "")

\* ---------------------------------------------------------- Home: swipes
\* The active card is on screen and takes drag gestures.
CardShown ==
  /\ ~isLoading
  /\ currentIndex < Len(movies)

AdvanceKind == IF currentIndex < Len(movies) - 1 THEN "next" ELSE "end"

\* goToNextMovie: step to the next card, or call loadMovies at the end.
goToNextMovie ==
  IF currentIndex < Len(movies) - 1
  THEN /\ currentIndex' = currentIndex + 1
       /\ UNCHANGED <<isLoading, requests>>
  ELSE /\ BagCardinality(requests) < MaxInflight
       /\ currentIndex' = currentIndex
       /\ StartLoad("end", activeCategory)

\* useFavorites().add: the hook state follows the store on success only.
HookAdd(id, writeOk) ==
  LET res == addFavorite(stored, id, writeOk)
  IN /\ stored' = res.stored
     /\ favorites' = IF res.success THEN res.stored ELSE favorites

\* Variant: the reject handler also saves the movie.
SwipeLeftSaves ==
  /\ route = "home"
  /\ CardShown
  /\ HookAdd(movies[currentIndex + 1].id, TRUE)
  /\ goToNextMovie
  /\ UNCHANGED <<route, movies, activeCategory, muted>>
  /\ Commit(player)
  /\ last' = Ev("SwipeLeft", AdvanceKind)

\* handleSwipeLeft (reject).
SwipeLeft ==
  /\ route = "home"
  /\ CardShown
  /\ goToNextMovie
  /\ UNCHANGED <<route, movies, activeCategory, muted, stored, favorites>>
  /\ Commit(player)
  /\ last' = Ev("SwipeLeft", AdvanceKind)

\* Variant: the accept handler advances first and saves the card it lands on.
SwipeRightAddsAfter(writeOk) ==
  /\ route = "home"
  /\ CardShown
  /\ HookAdd(movies[IF currentIndex < Len(movies) - 1 THEN currentIndex + 2 ELSE currentIndex + 1].id, writeOk)
  /\ goToNextMovie
  /\ UNCHANGED <<route, movies, activeCategory, muted>>
  /\ Commit(player)
  /\ last' = Ev("SwipeRight", AdvanceKind)

\* handleSwipeRight (accept): favorites.add(currentMovie.id), then advance.
SwipeRight(writeOk) ==
  /\ route = "home"
  /\ CardShown
  /\ HookAdd(movies[currentIndex + 1].id, writeOk)
  /\ goToNextMovie
  /\ UNCHANGED <<route, movies, activeCategory, muted>>
  /\ Commit(player)
  /\ last' = Ev("SwipeRight", AdvanceKind)

\* handleVideoEnd: the playing trailer of the active card has ended.
VideoEnd ==
  /\ route = "home"
  /\ CardShown
  /\ player[currentIndex + 1] = "playing"
  /\ goToNextMovie
  /\ UNCHANGED <<route, movies, activeCategory, muted, stored, favorites>>
  /\ Commit(player)
  /\ last' = Ev("VideoEnd", AdvanceKind)

\* ------------------------------------------------- Home: drag gestures
\* Horizontal offsets (px) and velocities (0.1 px/ms) of the drag events.
Offsets == {-81, -80, 0, 80, 81}
Velocities == {-6, -4, 0, 3, 4, 5, 6}

Abs(x) == IF x < 0 THEN -x ELSE x

\* Variant: the thresholds are inclusive.
handleDragEndInclusive(o, v, threshold, vt) ==
  IF Abs(o) >= threshold \/ Abs(v) >= vt
  THEN (IF o > 0 THEN "right" ELSE "left")
  ELSE "none"

\* Variant: a fling takes its direction from the velocity.
handleDragEndByVelocity(o, v, threshold, vt) ==
  IF Abs(o) > threshold \/ Abs(v) > vt
  THEN (IF Abs(v) > vt THEN (IF v > 0 THEN "right" ELSE "left")
        ELSE IF o > 0 THEN "right" ELSE "left")
  ELSE "none"

\* handleDragEnd: the callback a release resolves to, "none" when the
\* release meets neither threshold.
handleDragEnd(o, v, threshold, vt) ==
  IF Abs(o) > threshold \/ Abs(v) > vt
  THEN (IF o > 0 THEN "right" ELSE "left")
  ELSE "none"

\* Events other than drag events leave the hook alone.
NoDrag ==
  /\ info' = NoInfo
  /\ UNCHANGED <<swipeState, velocityThreshold>>
  /\ NoCollections

\* handleDragStart
DragStart ==
  /\ route = "home"
  /\ CardShown
  /\ ~swipeState.isDragging
  /\ swipeState' = [isDragging |-> TRUE, direction |-> "null", distance |-> 0]
  /\ info' = [kind |-> "start", offset |-> 0, velocity |-> 0]
  /\ UNCHANGED <<route, movies, currentIndex, isLoading, activeCategory, muted, requests, stored, favorites, velocityThreshold>>
  /\ NoCollections
  /\ Commit(player)
  /\ last' = Ev("DragStart", "")

\* handleDrag
Drag(o) ==
  /\ route = "home"
  /\ CardShown
  /\ swipeState.isDragging
  /\ swipeState' = [isDragging |-> TRUE, direction |-> IF o > 0 THEN "right" ELSE "left", distance |-> Abs(o)]
  /\ info' = [kind |-> "move", offset |-> o, velocity |-> 0]
  /\ UNCHANGED <<route, movies, currentIndex, isLoading, activeCategory, muted, requests, stored, favorites, velocityThreshold>>
  /\ NoCollections
  /\ Commit(player)
  /\ last' = Ev("Drag", "")

\* handleDragEnd on release: sets swipeState and calls onSwipeRight or
\* onSwipeLeft (Home's handleSwipeRight / handleSwipeLeft), or neither.
DragEnd(o, v, writeOk) ==
  /\ route = "home"
  /\ CardShown
  /\ swipeState.isDragging
  /\ LET d == handleDragEnd(o, v, SWIPE_THRESHOLD, velocityThreshold)
     IN /\ swipeState' = [isDragging |-> FALSE,
                          direction |-> IF d = "none" THEN "null" ELSE d,
                          distance |-> IF d = "none" THEN 0 ELSE Abs(o)]
        /\ CASE d = "right" -> SwipeRight(writeOk)
             [] d = "left" -> SwipeLeft
             [] OTHER -> /\ UNCHANGED <<route, movies, currentIndex, isLoading, activeCategory, muted, requests, stored, favorites>>
                         /\ Commit(player)
                         /\ last' = Ev("DragEnd", "none")
  /\ info' = [kind |-> "end", offset |-> o, velocity |-> v]
  /\ UNCHANGED velocityThreshold
  /\ NoCollections

\* ------------------------------------------------------ collection feed
IsValidTrailer(v) == v.site = "YouTube" /\ (v.type = "Trailer" \/ v.type = "Teaser")

\* loadCollection, lines 238-254: one movie of the collection, or null
\* (trailer NoTrailer, ok FALSE) when either fetch throws.
CollectionMovie(id, o) ==
  [ok |-> o.ok,
   movie |-> [id |-> id, cat |-> "collection",
              trailer |-> IF o.ok THEN FirstOrNull(SelectSeq(getMovieVideos(o.videos), IsValidTrailer))
                          ELSE NoTrailer]]

IsLoadedWithTrailer(m) == m.ok /\ m.movie.trailer # NoTrailer

Unwrap(ms) == [i \in 1..Len(ms) |-> ms[i].movie]

\* loadCollection, lines 256-259: validMovies.
validMovies(resp) ==
  Unwrap(SelectSeq([i \in 1..Len(resp) |-> CollectionMovie(Catalogue("collection")[i], resp[i])],
                   IsLoadedWithTrailer))

\* loadCollection after its awaits: setMovies(validMovies), setIsLoading(false).
CollectionLoaded(resp) ==
  /\ route = "collection"
  /\ requests # EmptyBag
  /\ movies' = validMovies(resp)
  /\ isLoading' = FALSE
  /\ requests' = EmptyBag
  /\ UNCHANGED <<route, currentIndex, activeCategory, muted, stored, favorites>>
  /\ Commit(player)
  /\ last' = Ev("CollectionLoaded", "")

\* loadCollection when the collection id is unknown or the load throws.
CollectionFailed ==
  /\ route = "collection"
  /\ requests # EmptyBag
  /\ isLoading' = FALSE
  /\ requests' = EmptyBag
  /\ UNCHANGED <<route, movies, currentIndex, activeCategory, muted, stored, favorites>>
  /\ Commit(player)
  /\ last' = Ev("CollectionFailed", "")

RECURSIVE IndexAfterEntries(_, _)
\* entries.forEach: every intersecting entry calls setCurrentIndex(index);
\* the last call wins.
IndexAfterEntries(idx, entries) ==
  IF entries = <<>> THEN idx
  ELSE IndexAfterEntries(IF Head(entries).isIntersecting THEN Head(entries).index ELSE idx,
                         Tail(entries))

EntrySeqs(n) ==
  UNION {[1..k -> [index : 0..(n - 1), isIntersecting : BOOLEAN]] : k \in 1..MaxEntries}

\* The IntersectionObserver callback over the rendered cards.
ObserverCallback(entries) ==
  /\ route = "collection"
  /\ ~isLoading
  /\ Len(movies) > 0
  /\ currentIndex' = IndexAfterEntries(currentIndex, entries)
  /\ UNCHANGED <<route, movies, isLoading, activeCategory, muted, requests, stored, favorites>>
  /\ Commit(player)
  /\ last' = Ev("ObserverCallback", "")

\* ------------------------------------------------- cards and their players
\* onMuteToggle: the button inside a TrailerPlayer that shows its iframe.
MuteToggle ==
  /\ \E p \in 1..Len(movies) : player[p] \in {"loading", "playing"}
  /\ muted' = ~muted
  /\ UNCHANGED <<route, movies, currentIndex, isLoading, activeCategory, requests, stored, favorites>>
  /\ Commit(player)
  /\ last' = Ev("MuteToggle", "")

\* useFavorites().toggle: setFavorites(getFavorites()) whatever the write did.
HookToggle(id, writeOk) ==
  LET res == toggleFavorite(stored, id, writeOk)
  IN /\ stored' = res.stored
     /\ favorites' = res.stored

\* onFavoriteToggle of a rendered card (the heart icon).
FavoriteToggle(p, writeOk) ==
  /\ CardRendered(route, movies, currentIndex, isLoading, p)
  /\ HookToggle(movies[p].id, writeOk)
  /\ UNCHANGED <<route, movies, currentIndex, isLoading, activeCategory, muted, requests>>
  /\ Commit(player)
  /\ last' = Ev("FavoriteToggle", "")

\* Variant: the iframe is reloaded after an error and fires onLoad again.
PlayerLoadRetries(p) ==
  /\ p \in 1..Len(movies)
  /\ player[p] \in {"loading", "error"}
  /\ UNCHANGED <<route, movies, currentIndex, isLoading, activeCategory, muted, requests, stored, favorites>>
  /\ Commit([player EXCEPT ![p] = "playing"])
  /\ last' = Ev("PlayerLoad", "")

\* handleLoad: the iframe fired onLoad; the embed autoplays.
PlayerLoad(p) ==
  /\ p \in 1..Len(movies)
  /\ player[p] = "loading"
  /\ UNCHANGED <<route, movies, currentIndex, isLoading, activeCategory, muted, requests, stored, favorites>>
  /\ Commit([player EXCEPT ![p] = "playing"])
  /\ last' = Ev("PlayerLoad", "")

\* handleError: the iframe fired onError; the player renders nothing.
PlayerError(p) ==
  /\ p \in 1..Len(movies)
  /\ player[p] \in {"loading", "playing"}
  /\ UNCHANGED <<route, movies, currentIndex, isLoading, activeCategory, muted, requests, stored, favorites>>
  /\ Commit([player EXCEPT ![p] = "error"])
  /\ last' = Ev("PlayerError", "")

\* The 500 ms timer of the mute effect fires: the command it captured is
\* posted to the iframe.
MuteTimer ==
  /\ timer # "none"
  /\ timer' = "none"
  /\ UNCHANGED <<route, movies, currentIndex, isLoading, activeCategory, muted, requests, player, stored, favorites>>
  /\ last' = Ev("postMessage", timer)

\* ------------------------------------------------- the store on its own
\* useFavorites().remove: the hook state follows the store on success only.
HookRemove(id, writeOk) ==
  LET res == removeFavorite(stored, id, writeOk)
  IN /\ stored' = res.stored
     /\ favorites' = IF res.success THEN res.stored ELSE favorites

\* The list localStorage holds when it is at the limit: ids 1..500, oldest
\* first.
FullStore == [i \in 1..MAX_FAVORITES |-> i]

\* Lists found in localStorage when the page mounts: none, one entry below
\* the limit, at the limit.
StoredLists == {<<>>, Tail(FullStore), FullStore}

\* Ids the calls are made with: the two oldest of the full list and one
\* that is not in it.
StoreIds == {1, 2, MAX_FAVORITES + 1}

\* History record of a store call: the id, whether the write it attempted
\* could succeed, and what it returned.
StoreEv(op, id, writeOk, result) == [op |-> op, arg |-> id, ok |-> writeOk, result |-> result]

\* The page itself takes no event.
PageIdle ==
  /\ UNCHANGED <<route, movies, currentIndex, isLoading, activeCategory, muted, requests, player, timer, swipeState, velocityThreshold, info>>
  /\ NoCollections

StoreAdd(id, writeOk) ==
  /\ HookAdd(id, writeOk)
  /\ last' = StoreEv("add", id, writeOk, addFavorite(stored, id, writeOk).success)
  /\ PageIdle

StoreRemove(id, writeOk) ==
  /\ HookRemove(id, writeOk)
  /\ last' = StoreEv("remove", id, writeOk, removeFavorite(stored, id, writeOk).success)
  /\ PageIdle

StoreToggle(id, writeOk) ==
  /\ HookToggle(id, writeOk)
  /\ last' = StoreEv("toggle", id, writeOk, toggleFavorite(stored, id, writeOk).result)
  /\ PageIdle

\* The hook has mounted and read the stored list (useFavorites mount effect).
InitStore ==
  /\ InitPage
  /\ route = "home"
  /\ velocityThreshold = VELOCITY_THRESHOLD_03
  /\ stored \in StoredLists
  /\ favorites = stored

NextStore ==
  \/ \E id \in StoreIds, w \in BOOLEAN : StoreAdd(id, w)
  \/ \E id \in StoreIds, w \in BOOLEAN : StoreRemove(id, w)
  \/ \E id \in StoreIds, w \in BOOLEAN : StoreToggle(id, w)

SpecStore == InitStore /\ [][NextStore]_vars

\* ------------------------------------------- trailer choice on its own
\* Entries of data.results: any site, type and official flag.
VideoKinds == [site : {"YouTube", "Vimeo"}, type : {"Trailer", "Teaser", "Clip"}, official : BOOLEAN, key : {"k"}]

VideoLists == UNION {[1..n -> VideoKinds] : n \in 0..MaxVideos}

\* loadMovies for a page of one movie whose videos answer is raw: the
\* success path of LoadSuccess, with the answer kept in the history record.
VideosLoaded(r, raw) ==
  /\ route = "home"
  /\ BagIn(r, requests)
  /\ movies' = moviesWithTrailers(r.cat, <<[ok |-> TRUE, videos |-> raw]>>)
  /\ currentIndex' = 0
  /\ isLoading' = FALSE
  /\ requests' = requests (-) SetToBag({r})
  /\ UNCHANGED <<route, activeCategory, muted, stored, favorites>>
  /\ Commit(player)
  /\ last' = Ev("getMovieVideos", raw)

InitVideos ==
  /\ Init
  /\ route = "home"

\* The provider answers one movie per page; the user skips it to get the
\* next page.
NextVideos ==
  \/ \E r \in BagToSet(requests), raw \in VideoLists : VideosLoaded(r, raw) /\ NoDrag
  \/ SwipeLeft /\ NoDrag

SpecVideos == InitVideos /\ [][NextVideos]_vars

\* ------------------------------------- favorites page: hook instances
\* addFavoriteCollection(collectionId)
addFavoriteCollection(st, id, writeOk) ==
  IF Includes(st, id)
  THEN [success |-> TRUE, stored |-> st]
  ELSE LET base == IF Len(st) >= MAX_FAVORITES THEN Tail(st) ELSE st
       IN IF writeOk
          THEN [success |-> TRUE, stored |-> Append(base, id)]
          ELSE [success |-> FALSE, stored |-> st]

\* removeFavoriteCollection(collectionId)
removeFavoriteCollection(st, id, writeOk) ==
  IF writeOk
  THEN [success |-> TRUE, stored |-> Without(st, id)]
  ELSE [success |-> FALSE, stored |-> st]

\* toggleFavoriteCollection(collectionId)
toggleFavoriteCollection(st, id, writeOk) ==
  IF Includes(st, id)
  THEN [result |-> FALSE, stored |-> removeFavoriteCollection(st, id, writeOk).stored]
  ELSE [result |-> TRUE, stored |-> addFavoriteCollection(st, id, writeOk).stored]

\* FavoritesPage renders a CollectionCard for every id of its own hook's
\* list (the `collections` state its effect derives from it).
CardMounted(c) == Includes(favoriteCollections, c)

\* The hook state of every card after the page has rendered the list st:
\* the mount effect of a card reads the store.
CardsMounted(st) == [c \in CollectionIds |-> IF Includes(st, c) THEN st ELSE <<>>]

\* The Home and collection feeds are not mounted.
FeedIdle ==
  UNCHANGED <<route, movies, currentIndex, isLoading, activeCategory, muted, requests, player, timer, swipeState, velocityThreshold, info>>

\* handleFavoriteToggle of the CollectionCard of collection c: the toggle
\* of the card's own hook instance, toggleFavoriteCollection and then
\* loadFavorites of that instance only.
CardFavoriteToggle(c, writeOk) ==
  /\ route = "favorites"
  /\ CardMounted(c)
  /\ LET res == toggleFavoriteCollection(storedCollections, c, writeOk)
     IN /\ storedCollections' = res.stored
        /\ cardCollections' = [cardCollections EXCEPT ![c] = res.stored]
        /\ last' = StoreEv("CardFavoriteToggle", c, writeOk, res.result)
  /\ UNCHANGED <<favoriteCollections, stored, favorites>>
  /\ FeedIdle

\* The user leaves /favorites and comes back: FavoritesPage mounts anew,
\* its hook's mount effect reads the store, and so does that of every card
\* it then renders.
FavoritesPageMount ==
  /\ route = "favorites"
  /\ favoriteCollections' = storedCollections
  /\ cardCollections' = CardsMounted(storedCollections)
  /\ favorites' = stored
  /\ UNCHANGED <<storedCollections, stored>>
  /\ last' = Ev("FavoritesPageMount", "")
  /\ FeedIdle

\* handleRemoveMovie: the remove button of a FavoriteMovieCard, which calls
\* remove of the page's own useFavorites instance.
RemoveMovie(id, writeOk) ==
  /\ route = "favorites"
  /\ Includes(favorites, id)
  /\ HookRemove(id, writeOk)
  /\ last' = StoreEv("RemoveMovie", id, writeOk, removeFavorite(stored, id, writeOk).success)
  /\ NoCollections
  /\ FeedIdle

\* FavoritesPage has mounted over a store that holds two movies and both
\* collections.
InitHooks ==
  /\ route = "favorites"
  /\ movies = <<>>
  /\ currentIndex = 0
  /\ isLoading = FALSE
  /\ activeCategory = "popular"
  /\ muted = TRUE
  /\ requests = EmptyBag
  /\ player = <<>>
  /\ stored = <<1, 2>>
  /\ favorites = stored
  /\ timer = "none"
  /\ swipeState = [isDragging |-> FALSE, direction |-> "null", distance |-> 0]
  /\ velocityThreshold = VELOCITY_THRESHOLD_03
  /\ info = NoInfo
  /\ storedCollections = <<"c1", "c2">>
  /\ favoriteCollections = storedCollections
  /\ cardCollections = CardsMounted(storedCollections)
  /\ last = Ev("FavoritesPageMount", "")

NextHooks ==
  \/ \E c \in CollectionIds, w \in BOOLEAN : CardFavoriteToggle(c, w)
  \/ \E id \in 1..2, w \in BOOLEAN : RemoveMovie(id, w)
  \/ FavoritesPageMount

SpecHooks == InitHooks /\ [][NextHooks]_vars

\* ------------------------------------------ scroll observer on its own
\* The IntersectionObserver callback of the collection page, with the
\* entries it was handed kept in the history record.
ObserverReport(entries) ==
  /\ route = "collection"
  /\ ~isLoading
  /\ Len(movies) > 0
  /\ currentIndex' = IndexAfterEntries(currentIndex, entries)
  /\ UNCHANGED <<route, movies, isLoading, activeCategory, muted, requests, stored, favorites>>
  /\ Commit(player)
  /\ last' = Ev("ObserverReport", entries)

InitObserver ==
  /\ Init
  /\ route = "collection"

NextObserver ==
  \/ \E resp \in [1..MaxItems -> Outcomes] : CollectionLoaded(resp) /\ NoDrag
  \/ \E es \in EntrySeqs(Len(movies)) : ObserverReport(es) /\ NoDrag
  \/ \E p \in 1..MaxItems : PlayerLoad(p) /\ NoDrag
  \/ MuteToggle /\ NoDrag

SpecObserver == InitObserver /\ [][NextObserver]_vars

\* ----------------------------------------------------------- specification
Responses == UNION {[1..n -> Outcomes] : n \in 0..MaxItems}

Next ==
  \/ \E c \in Categories : CategoryChange(c) /\ NoDrag
  \/ \E r \in BagToSet(requests), resp \in Responses : LoadSuccess(r, resp) /\ NoDrag
  \/ \E r \in BagToSet(requests) : LoadFail(r) /\ NoDrag
  \/ TryAgain /\ NoDrag
  \/ SwipeLeft /\ NoDrag
  \/ \E w \in BOOLEAN : SwipeRight(w) /\ NoDrag
  \/ VideoEnd /\ NoDrag
  \/ \E resp \in [1..MaxItems -> Outcomes] : CollectionLoaded(resp) /\ NoDrag
  \/ CollectionFailed /\ NoDrag
  \/ \E es \in EntrySeqs(Len(movies)) : ObserverCallback(es) /\ NoDrag
  \/ MuteToggle /\ NoDrag
  \/ \E p \in 1..MaxItems, w \in BOOLEAN : FavoriteToggle(p, w) /\ NoDrag
  \/ \E p \in 1..MaxItems : PlayerLoad(p) /\ NoDrag
  \/ \E p \in 1..MaxItems : PlayerError(p) /\ NoDrag
  \/ MuteTimer /\ NoDrag

Spec == Init /\ [][Next]_vars

\* Home with the drag handlers of the card: the swipe callbacks are fired
\* by handleDragEnd, under either version of useSwipe.
InitSwipe ==
  /\ InitFeed
  /\ route = "home"
  /\ velocityThreshold \in {VELOCITY_THRESHOLD_05, VELOCITY_THRESHOLD_03}

NextSwipe ==
  \/ \E r \in BagToSet(requests), resp \in Responses : LoadSuccess(r, resp) /\ NoDrag
  \/ \E r \in BagToSet(requests) : LoadFail(r) /\ NoDrag
  \/ \E p \in 1..MaxItems : PlayerLoad(p) /\ NoDrag
  \/ MuteTimer /\ NoDrag
  \/ DragStart
  \/ \E o \in Offsets : Drag(o)
  \/ \E o \in Offsets, v \in Velocities, w \in BOOLEAN : DragEnd(o, v, w)

SpecSwipe == InitSwipe /\ [][NextSwipe]_vars

\* Home with the asynchronous events that are bound to happen: the provider
\* answers every request it was sent (the fetch resolves or rejects), and a
\* timer set with setTimeout fires unless it is cleared.
ProviderAnswers ==
  \E r \in BagToSet(requests) :
    \/ \E resp \in Responses : LoadSuccess(r, resp) /\ NoDrag
    \/ LoadFail(r) /\ NoDrag

InitLive ==
  /\ Init
  /\ route = "home"

NextLive ==
  \/ \E c \in Categories : CategoryChange(c) /\ NoDrag
  \/ \E r \in BagToSet(requests), resp \in Responses : LoadSuccess(r, resp) /\ NoDrag
  \/ \E r \in BagToSet(requests) : LoadFail(r) /\ NoDrag
  \/ TryAgain /\ NoDrag
  \/ SwipeLeft /\ NoDrag
  \/ MuteToggle /\ NoDrag
  \/ \E p \in 1..MaxItems : PlayerLoad(p) /\ NoDrag
  \/ \E p \in 1..MaxItems : PlayerError(p) /\ NoDrag
  \/ MuteTimer /\ NoDrag

SpecLive ==
  /\ InitLive
  /\ [][NextLive]_vars
  /\ WF_vars(ProviderAnswers)
  /\ WF_vars(MuteTimer /\ NoDrag)

TypeOK ==
  /\ route \in {"home", "collection", "favorites"}
  /\ currentIndex \in 0..MaxItems
  /\ isLoading \in BOOLEAN
  /\ muted \in BOOLEAN
  /\ Len(player) = Len(movies)
  /\ \A p \in 1..Len(player) : player[p] \in PlayerStatus
  /\ BagCardinality(requests) <= MaxInflight
  /\ timer \in {"none", "mute", "unMute"}
  /\ swipeState \in [isDragging : BOOLEAN, direction : {"left", "right", "null"}, distance : Nat]
  /\ velocityThreshold \in {VELOCITY_THRESHOLD_05, VELOCITY_THRESHOLD_03}
  /\ info \in [kind : {"none", "start", "move", "end"}, offset : Int, velocity : Int]

\* ================================================================ claims
Mounted(pl, p) == pl[p] \in {"loading", "playing"}

IsAdvance(ev) == ev.op \in {"SwipeLeft", "SwipeRight", "VideoEnd"}

\* C1: in every reachable state of either feed at most one item has a
\* playing trailer player, and only the item at currentIndex can be playing.
C1_AtMostOnePlaying ==
  /\ Cardinality({p \in 1..Len(player) : player[p] = "playing"}) <= 1
  /\ \A p \in 1..Len(player) : player[p] = "playing" => p = currentIndex + 1

\* The scroll feed shows two cards, the second is active and plays.
C1_Witness ==
  /\ route = "collection"
  /\ Len(movies) >= 2
  /\ currentIndex = 1
  /\ player[2] = "playing"
  /\ last.op = "PlayerLoad"

\* C2: when the active item changes from A to B, A's player is stopped no
\* later than B's is mounted: after any event no two items have a mounted
\* (loading or playing) player, and the item that was active is idle.
C2_StopBeforeLoad ==
  [][/\ \A p, q \in 1..Len(player') : Mounted(player', p) /\ Mounted(player', q) => p = q
     /\ (movies' = movies /\ currentIndex' # currentIndex /\ currentIndex < Len(movies))
          => player'[currentIndex + 1] = "idle"]_vars

\* The scroll feed went from a playing first card to the second card, which
\* is now loading while the first has no player.
C2_Witness ==
  /\ route = "collection"
  /\ last.op = "ObserverCallback"
  /\ currentIndex = 1
  /\ player[1] = "idle"
  /\ player[2] = "loading"

\* C3: currentIndex is a valid index of movies whenever movies is
\* non-empty, and points at no item only when movies is empty.
C3_IndexValid ==
  /\ currentIndex >= 0
  /\ (Len(movies) > 0 => currentIndex < Len(movies))
  /\ (currentIndex >= Len(movies) => Len(movies) = 0)

\* A load completed with a list shorter than the one the user had walked
\* into, and the index points at its only item.
C3_Witness ==
  /\ route = "home"
  /\ last.op = "LoadSuccess"
  /\ last.arg = "end"
  /\ Len(movies) = 1
  /\ currentIndex = 0

\* C4: every item of movies has a YouTube trailer with a non-empty key.
C4_EveryItemHasTrailer ==
  \A p \in 1..Len(movies) :
    /\ movies[p].trailer # NoTrailer
    /\ movies[p].trailer.site = "YouTube"
    /\ movies[p].trailer.key # ""

\* C5: the result of a load issued for a category that is no longer the
\* selected one is discarded on arrival: a completed load that changes
\* movies puts there only items fetched for the selected category.
C5_StaleResultDiscarded ==
  [][(last'.op = "LoadSuccess" /\ movies' # movies)
       => \A p \in 1..Len(movies') : movies'[p].cat = activeCategory']_vars

\* C6: completion of a load-more request keeps the previous movies as a
\* prefix of the new list and does not move currentIndex.
C6_ReplenishAppends ==
  [][(last'.op = "LoadSuccess" /\ last'.arg = "end")
       => (IsPrefix(movies, movies') /\ currentIndex' = currentIndex)]_vars

\* C7: a failed movie-list fetch leaves movies and currentIndex as they
\* were, issues no request, and puts the existing cards back on screen.
C7_FailLeavesFeed ==
  [][last'.op = "LoadFail"
       => /\ movies' = movies
          /\ currentIndex' = currentIndex
          /\ BagCardinality(requests') = BagCardinality(requests) - 1
          /\ \A r \in BagToSet(requests') : CopiesIn(r, requests') <= CopiesIn(r, requests)
          /\ ~isLoading'
          /\ (Len(movies) > 0 => CardShown')]_vars

\* A load failed while the user stood on the second of two cards.
C7_Witness ==
  /\ last.op = "LoadFail"
  /\ Len(movies) = 2
  /\ currentIndex = 1
  /\ CardShown

\* C8: no state has activeCategory at one value while movies still holds
\* the items of another category.
C8_CategoryAtomic ==
  route = "home" => \A p \in 1..Len(movies) : movies[p].cat = activeCategory

\* C9: an advance at the last index keeps currentIndex and movies and
\* issues a load, and the feed still stands on that item, its list neither
\* cleared nor replaced, after the event that follows.
C9_EndAdvanceStays ==
  [][/\ (IsAdvance(last') /\ last'.arg = "end")
          => /\ currentIndex' = currentIndex
             /\ movies' = movies
             /\ BagCardinality(requests') = BagCardinality(requests) + 1
     /\ (IsAdvance(last) /\ last.arg = "end")
          => /\ currentIndex' = currentIndex
             /\ IsPrefix(movies, movies')]_vars

OthersKept(s, t, x) == \A i \in 1..MaxItems : i # x => (Includes(s, i) <=> Includes(t, i))

NewlyMounted(p) ==
  /\ Mounted(player', p)
  /\ ~\E q \in 1..Len(player) : /\ Mounted(player, q)
                                /\ movies[q].id = movies'[p].id
                                /\ movies[q].trailer = movies'[p].trailer

\* C14: only the mute button changes the preference; a player that mounts
\* when its item becomes active has the correction command matching the
\* preference scheduled ('unMute' when muted is false, 'mute' when true);
\* and the command posted when the timer fires matches the preference and
\* goes to the active item's player.
C14_MuteFollowsPreference ==
  [][/\ last'.op # "MuteToggle" => muted' = muted
     /\ \A p \in 1..Len(player') :
          NewlyMounted(p) => timer' = (IF muted' THEN "mute" ELSE "unMute")
     /\ last'.op = "postMessage"
          => /\ last'.arg = (IF muted THEN "mute" ELSE "unMute")
             /\ currentIndex < Len(player)
             /\ Mounted(player, currentIndex + 1)]_vars

\* The user had unmuted on the first card and has just swiped to the
\* second: the preference is still false and the second card's player has
\* 'unMute' scheduled.
C14_Witness ==
  /\ last = Ev("SwipeLeft", "next")
  /\ ~muted
  /\ currentIndex = 1
  /\ player[2] = "loading"
  /\ timer = "unMute"

\* The release just handled met the distance or the velocity threshold.
Crossed(i, vt) == Abs(i.offset) > SWIPE_THRESHOLD \/ Abs(i.velocity) > vt

\* C12: a release fires a swipe callback if and only if |offset| exceeds
\* the distance threshold or |velocity| exceeds the velocity threshold, both
\* strictly; a release that fires none leaves movies, currentIndex, the
\* favorites and the requests unchanged; a release that fires one has the
\* effect of one callback only.
C12_ReleaseThreshold ==
  [][info'.kind = "end"
       => /\ Crossed(info', velocityThreshold) <=> last'.op \in {"SwipeLeft", "SwipeRight"}
          /\ ~Crossed(info', velocityThreshold)
               => /\ last' = Ev("DragEnd", "none")
                  /\ movies' = movies
                  /\ currentIndex' = currentIndex
                  /\ stored' = stored
                  /\ favorites' = favorites
                  /\ requests' = requests
          /\ currentIndex' \in {currentIndex, currentIndex + 1}
          /\ BagCardinality(requests') <= BagCardinality(requests) + 1
          /\ Len(stored') <= Len(stored) + 1]_vars

\* A release exactly on both thresholds (80 px, 0.5 px/ms) fired nothing.
C12_Witness ==
  /\ info = [kind |-> "end", offset |-> SWIPE_THRESHOLD, velocity |-> VELOCITY_THRESHOLD_05]
  /\ velocityThreshold = VELOCITY_THRESHOLD_05
  /\ last = Ev("DragEnd", "none")
  /\ CardShown
  /\ swipeState = [isDragging |-> FALSE, direction |-> "null", distance |-> 0]

\* C13: when a release fires a callback, a positive offset fires the accept
\* handler (the active item is saved, unless the write failed, and the feed
\* advances) and a negative offset fires the reject handler (nothing is
\* saved), whatever the velocity and its sign.
C13_DirectionByOffset ==
  [][(info'.kind = "end" /\ last'.op \in {"SwipeLeft", "SwipeRight"})
       => /\ info'.offset > 0
               => /\ last'.op = "SwipeRight"
                  /\ swipeState'.direction = "right"
                  /\ \/ Includes(stored', movies[currentIndex + 1].id)
                     \/ stored' = stored
          /\ info'.offset < 0
               => /\ last'.op = "SwipeLeft"
                  /\ swipeState'.direction = "left"
                  /\ stored' = stored
                  /\ favorites' = favorites]_vars

\* A release 80 px to the right, flung leftwards at 0.6 px/ms, was taken as
\* an accept and saved the card.
C13_Witness ==
  /\ info = [kind |-> "end", offset |-> 80, velocity |-> -6]
  /\ last = Ev("SwipeRight", "next")
  /\ currentIndex = 1
  /\ Includes(favorites, movies[1].id)

NoDuplicate(s) == Cardinality({s[i] : i \in 1..Len(s)}) = Len(s)

\* C15: add(id) on a store that contains id returns true and leaves the
\* stored list as it was, and no call of add, remove or toggle produces a
\* list with an id twice from a list without one.
C15_AddIdempotent ==
  [][/\ (last'.op = "add" /\ Includes(stored, last'.arg))
          => (last'.result /\ stored' = stored /\ favorites' = stored)
     /\ NoDuplicate(stored) => NoDuplicate(stored')]_vars

\* add(2) was called on the full list, which holds 2, with storage refusing
\* writes: it returned true and the list is the full list still.
C15_Witness ==
  /\ last = StoreEv("add", 2, FALSE, TRUE)
  /\ stored = FullStore

\* The call just made was an add of an id the store did not hold, on a
\* store at the limit.
AddAtLimit == last'.op = "add" /\ Len(stored) = MAX_FAVORITES /\ ~Includes(stored, last'.arg)

\* What an add at the limit leaves: the oldest id gone, the new one last,
\* every other id in place, the count at the limit.
EvictsOldest ==
  /\ Len(stored') = MAX_FAVORITES
  /\ ~Includes(stored', Head(stored))
  /\ stored'[MAX_FAVORITES] = last'.arg
  /\ \A i \in 2..MAX_FAVORITES : stored'[i - 1] = stored[i]

\* C16 (as stated): an add of a distinct id to a store holding 500 ids
\* evicts exactly the oldest and appends the new one, and no call leaves
\* more than 500 ids.
C16_EvictsOldestAtLimit ==
  [][/\ AddAtLimit => EvictsOldest
     /\ Len(stored) <= MAX_FAVORITES => Len(stored') <= MAX_FAVORITES]_vars

\* C16 (amended): the same for an add whose write succeeds; an add whose
\* write fails returns false and leaves the 500 ids as they were.
C16_EvictsOldestIfWritten ==
  [][/\ (AddAtLimit /\ last'.ok) => (EvictsOldest /\ last'.result)
     /\ (AddAtLimit /\ ~last'.ok) => (stored' = stored /\ ~last'.result)
     /\ Len(stored) <= MAX_FAVORITES => Len(stored') <= MAX_FAVORITES]_vars

\* Id 501 was added to the full list 1..500: id 1 is gone, 2 is the oldest,
\* 501 the newest.
C16_Witness ==
  /\ last = StoreEv("add", MAX_FAVORITES + 1, TRUE, TRUE)
  /\ Len(stored) = MAX_FAVORITES
  /\ Head(stored) = 2
  /\ stored[MAX_FAVORITES] = MAX_FAVORITES + 1
  /\ ~Includes(stored, 1)

\* C17: the boolean toggle returns is the membership of the id in the store
\* right after the call, whether or not the write succeeded.
C17_ToggleReturnsMembership ==
  [][last'.op = "toggle" => (last'.result <=> Includes(stored', last'.arg))]_vars

\* The call just made attempted a write that storage refused.
WriteFailed ==
  /\ ~last'.ok
  /\ \/ last'.op = "remove"
     \/ last'.op = "add" /\ ~Includes(stored, last'.arg)

\* C18: an add or remove whose write fails returns false and leaves the
\* stored list and the hook's list as they were; an add or remove that
\* returns true has left the store with, respectively without, the id.
C18_FailureSurfaced ==
  [][/\ (last'.op \in {"add", "remove"} /\ WriteFailed)
          => (~last'.result /\ stored' = stored /\ favorites' = favorites)
     /\ (last'.op = "add" /\ last'.result) => Includes(stored', last'.arg)
     /\ (last'.op = "remove" /\ last'.result) => ~Includes(stored', last'.arg)]_vars

\* remove(1) on the full list with storage refusing the write returned
\* false; store and hook still hold the full list.
C18_Witness ==
  /\ last = StoreEv("remove", 1, FALSE, FALSE)
  /\ stored = FullStore
  /\ favorites = FullStore

\* C19: remove of an id the store does not hold returns true and leaves
\* the list as it was, and a second remove of the same id changes nothing.
C19_RemoveIdempotent ==
  [][/\ (last'.op = "remove" /\ ~Includes(stored, last'.arg))
          => (last'.result /\ stored' = stored)
     /\ (last.op = "remove" /\ last'.op = "remove" /\ last'.arg = last.arg /\ last.result)
          => stored' = stored]_vars

\* Some video of the list is of the given type (and official, if asked).
HasVideo(vs, type, officialOnly) ==
  \E i \in 1..Len(vs) : vs[i].type = type /\ (officialOnly => vs[i].official)

\* C20: the trailer given to a movie is, among the YouTube videos of the
\* answer, an official Trailer if there is one; else a Trailer; else a
\* Teaser; else the first YouTube video; and none when the answer has no
\* YouTube video.
C20_TrailerChoice ==
  last.op = "getMovieVideos"
    => LET yt == SelectSeq(last.arg, IsYouTube)
           t == movies[1].trailer
       IN /\ (yt = <<>>) <=> (t = NoTrailer)
          /\ t # NoTrailer => t.site = "YouTube"
          /\ HasVideo(yt, "Trailer", TRUE) => (t.type = "Trailer" /\ t.official)
          /\ HasVideo(yt, "Trailer", FALSE) => t.type = "Trailer"
          /\ (~HasVideo(yt, "Trailer", FALSE) /\ HasVideo(yt, "Teaser", FALSE)) => t.type = "Teaser"
          /\ (yt # <<>> /\ ~HasVideo(yt, "Trailer", FALSE) /\ ~HasVideo(yt, "Teaser", FALSE)) => t = yt[1]

\* No card shows a player's iframe.
NoPlayerShown == \A p \in 1..Len(player) : ~Mounted(player, p)

\* C21: a mute toggle flips the preference and schedules, for the player on
\* screen, the command of the new value in place of any pending one; the
\* pending command is always that of the current preference, so the command
\* delivered last matches the final value; and after a toggle the command
\* of the current preference is delivered, unless no player is left to
\* take it.
C21_ToggleCorrects ==
  /\ [][/\ last'.op = "MuteToggle"
             => /\ muted' = ~muted
                /\ timer' = MuteCommand(muted')
                /\ ~NoPlayerShown'
        /\ timer' # "none" => timer' = MuteCommand(muted')
        /\ last'.op = "postMessage" => last'.arg = MuteCommand(muted')]_vars
  /\ (last.op = "MuteToggle")
       ~> (\/ last.op = "postMessage" /\ last.arg = MuteCommand(muted)
           \/ NoPlayerShown)

\* The user has toggled back to muted on a playing card: 'mute' is the one
\* command pending.
C21_Witness ==
  /\ last = Ev("MuteToggle", "")
  /\ muted
  /\ timer = "mute"
  /\ ActiveStatus = "playing"

\* C22: no mute command is posted to a player that has not fired its load
\* event: whenever a command has just been posted, the active item's player
\* is playing (loaded), not still loading.
C22_NoCommandBeforeReady ==
  last.op = "postMessage" => ActiveStatus = "playing"

\* The card at q after the step shows the same movie and video as the card
\* at p before it.
SameInstance(p, q) == movies'[q].id = movies[p].id /\ movies'[q].trailer = movies[p].trailer

Surface(rt, mv, idx, ld, pl, p) ==
  IF ~CardRendered(rt, mv, idx, ld, p) THEN "none"
  ELSE IF HasPlayer(rt, mv, idx, ld, p)
       THEN (IF Mounted(pl, p) THEN "player" ELSE "empty")
       ELSE "poster"

\* C24: the card of an item whose player is in the error state shows the
\* poster, never an empty surface.
C24_ErrorShowsPoster ==
  \A p \in 1..Len(player) :
    player[p] = "error" => Surface(route, movies, currentIndex, isLoading, player, p) = "poster"

\* The active item's card shows its player's iframe.
ActiveMounted == currentIndex < Len(player) /\ Mounted(player, currentIndex + 1)

\* The player of the active item loses its iframe in the step.
ActiveUnmounts ==
  /\ ActiveMounted
  /\ ~\E q \in 1..Len(player') : SameInstance(currentIndex + 1, q) /\ Mounted(player', q)

\* C25: a load or error signal is only ever taken from the active item's
\* player and changes that player alone, not currentIndex; a mute command
\* is only ever posted while the active item's player is mounted and
\* changes no player and not currentIndex; a timer is pending only for a
\* mounted active player, and when that player unmounts its timer is
\* cleared (what is pending afterwards was set by a player mounting in the
\* same step).
C25_StaleSignalsIgnored ==
  [][/\ last'.op \in {"PlayerLoad", "PlayerError"}
          => /\ ActiveMounted
             /\ currentIndex' = currentIndex
             /\ \A p \in 1..Len(player) : p # currentIndex + 1 => player'[p] = player[p]
     /\ last'.op = "postMessage"
          => /\ ActiveMounted
             /\ player' = player
             /\ currentIndex' = currentIndex
     /\ timer' # "none" => ActiveMounted'
     /\ ActiveUnmounts
          => \/ timer' = "none"
             \/ \E p \in 1..Len(player') : NewlyMounted(p)]_vars

\* The second card of the scroll feed is active, the user has unmuted, and
\* the card's player has just failed: no player is mounted and no command
\* is pending.
C25_Witness ==
  /\ route = "collection"
  /\ last.op = "PlayerError"
  /\ ~muted
  /\ currentIndex = 1
  /\ player = <<"idle", "error">>
  /\ timer = "none"

\* Indices of the cards the entries report as intersecting.
Reported(entries) ==
  {entries[i].index : i \in {j \in 1..Len(entries) : entries[j].isIntersecting}}

\* The reported indices nearest to idx.
Closest(idx, entries) ==
  {i \in Reported(entries) : \A j \in Reported(entries) : Abs(i - idx) <= Abs(j - idx)}

\* The same entries in the order f.
Reordered(entries, f) == [i \in 1..Len(entries) |-> entries[f[i]]]

\* C26: after an observer callback that reports intersecting cards, the new
\* currentIndex is one of the reported indices, the nearest to the previous
\* currentIndex when the reported cards are all other than the previous
\* one, and it is the same for every order of the entries.
C26_ClosestReportedWins ==
  [][last'.op = "ObserverReport"
       => LET es == last'.arg
          IN /\ Reported(es) # {}
                  => /\ currentIndex' \in Reported(es)
                     /\ currentIndex \notin Reported(es) => currentIndex' \in Closest(currentIndex, es)
             /\ \A f \in Permutations(1..Len(es)) :
                  IndexAfterEntries(currentIndex, Reordered(es, f)) = currentIndex']_vars

\* C27: an advance of the Home feed that leaves currentIndex within two
\* items of the end of movies (the smallest lookahead margin) starts a
\* load, whether or not it was made on the last item.
C27_ReplenishAhead ==
  [][(route = "home" /\ IsAdvance(last') /\ currentIndex' >= Len(movies') - 2)
       => BagCardinality(requests') = BagCardinality(requests) + 1]_vars

\* The call before this one was an add of the id that is still the oldest
\* of a full list, hence an add of an id that was stored already.
ReAddedOldest == last.op = "add" /\ Len(stored) = MAX_FAVORITES /\ Head(stored) = last.arg

\* C28: an add of an id that is stored returns true and leaves the stored
\* list, order included, as it was; and when the oldest id of a full list
\* has just been added again, the next add of a new id evicts that very id.
C28_ReAddKeepsAge ==
  [][/\ (last'.op = "add" /\ Includes(stored, last'.arg))
          => (last'.result /\ stored' = stored)
     /\ (ReAddedOldest /\ AddAtLimit /\ last'.ok)
          => (~Includes(stored', last.arg) /\ Head(stored') = stored[2])]_vars

\* add(1) was called, with storage accepting writes, on the full list whose
\* oldest id is 1: the list is unchanged and 1 is still the oldest.
C28_Witness ==
  /\ last = StoreEv("add", 1, TRUE, TRUE)
  /\ stored = FullStore
  /\ Head(stored) = 1
  /\ favorites = FullStore

\* C29: every mounted hook instance of the favorites page (the page's own
\* and that of each card it shows) holds the stored list, so that each
\* reports the membership the store has for every id.
C29_InstancesAgree ==
  route = "favorites"
    => /\ favorites = stored
       /\ favoriteCollections = storedCollections
       /\ \A c \in CollectionIds : CardMounted(c) => cardCollections[c] = storedCollections

\* C30: Home is never in the loading state without a request awaiting the
\* provider, and, the provider answering every request, a loading state is
\* always followed by a state that is not loading.
C30_LoadingClears ==
  /\ [](requests = EmptyBag => ~isLoading)
  /\ (isLoading ~> ~isLoading)

\* The load started by Try Again has failed as well: nothing is
\* outstanding, and the empty state with its button is back on screen.
C30_Witness ==
  /\ last = Ev("LoadFail", "retry")
  /\ requests = EmptyBag
  /\ ~isLoading
  /\ movies = <<>>

====
